---- MODULE Spec2Model ----
(***************************************************************************)
(* A model of mosfit/printer.py: the Printer class that renders status     *)
(* lines, message-catalog texts, prompts and dependency trees on a         *)
(* terminal.                                                               *)
(*                                                                         *)
(* A Python string is a sequence of one-character strings.  Characters     *)
(* outside ASCII are written by their code point ("U2500" is one           *)
(* character, the box-drawing dash), the escape character is "ESC" and     *)
(* the line feed is "LF".  Durations are counted in half seconds, so that  *)
(* the rounding of get_timestring has something to round.                  *)
(***************************************************************************)
EXTENDS Integers, Sequences, FiniteSets, TLC

VARIABLES
    quiet,        \* Printer._quiet
    pool,         \* Printer._pool: "none", or a pool that "master" / "worker" is_master()
    wrap_length,  \* Printer._wrap_length
    fitter,       \* Printer._fitter: NoFitter or the fields the printer reads
    encodable,    \* whether sys.stdout can encode characters outside ASCII
    stdout,       \* what the last call wrote to sys.stdout, in order
    call,         \* the last call: its entry point and arguments
    ret,          \* how the last call ended: its return value or the error raised
    frame         \* the locals of the last call that the output is built from

vars == <<quiet, pool, wrap_length, fitter, encodable, stdout, call, ret, frame>>

config == <<quiet, pool, wrap_length, fitter, encodable>>

----------------------------------------------------------------------------
(* Python's str methods, on sequences of characters.                       *)

LF == "LF"
ESC == "ESC"
SP == " "

\* ''.join(ss) and sep.join(ss); the list is halved so that the evaluation
\* nests no deeper than the logarithm of its length
RECURSIVE Join(_, _)
Join(sep, ss) ==
    IF Len(ss) = 0 THEN <<>>
    ELSE IF Len(ss) = 1 THEN ss[1]
    ELSE LET h == Len(ss) \div 2
         IN  Join(sep, SubSeq(ss, 1, h)) \o sep \o Join(sep, SubSeq(ss, h + 1, Len(ss)))

Flatten(ss) == Join(<<>>, ss)

Repeat(s, n) == Flatten([i \in 1..n |-> s])

Reverse(s) == [i \in 1..Len(s) |-> s[Len(s) + 1 - i]]

Count(s, c) == Cardinality({i \in 1..Len(s) : s[i] = c})

StartsWith(s, p) == Len(s) >= Len(p) /\ SubSeq(s, 1, Len(p)) = p

\* the least index at which p occurs in s, 0 when it does not: str.find + 1
Find(s, p) ==
    LET hits == {i \in 1..(Len(s) - Len(p) + 1) : SubSeq(s, i, i + Len(p) - 1) = p}
    IN  IF hits = {} THEN 0 ELSE CHOOSE i \in hits : \A j \in hits : i <= j

\* str.replace(p, r, 1) for a non-empty p
ReplaceFirst(s, p, r) ==
    LET i == Find(s, p)
    IN  IF i = 0 THEN s
        ELSE SubSeq(s, 1, i - 1) \o r \o SubSeq(s, i + Len(p), Len(s))

\* str.replace(p, r) for a non-empty p: left to right, not overlapping
RECURSIVE Replace(_, _, _)
Replace(s, p, r) ==
    LET i == Find(s, p)
    IN  IF i = 0 THEN s
        ELSE SubSeq(s, 1, i - 1) \o r \o Replace(SubSeq(s, i + Len(p), Len(s)), p, r)

\* str.split(c) for a one-character separator
RECURSIVE Split(_, _)
Split(s, c) ==
    LET i == Find(s, <<c>>)
    IN  IF i = 0 THEN <<s>>
        ELSE <<SubSeq(s, 1, i - 1)>> \o Split(SubSeq(s, i + 1, Len(s)), c)

\* str.splitlines(): the text is cut at each line feed, and a line feed that
\* ends the text opens no further line
Splitlines(s) ==
    IF s = <<>> THEN <<>>
    ELSE IF s[Len(s)] = LF THEN Split(SubSeq(s, 1, Len(s) - 1), LF)
    ELSE Split(s, LF)

\* str.rstrip() and str.strip(chars)
RStripSet(s, cs) ==
    LET kept == {i \in 1..Len(s) : s[i] \notin cs}
    IN  IF kept = {} THEN <<>>
        ELSE SubSeq(s, 1, CHOOSE i \in kept : \A j \in kept : j <= i)

LStripSet(s, cs) ==
    LET kept == {i \in 1..Len(s) : s[i] \notin cs}
    IN  IF kept = {} THEN <<>>
        ELSE SubSeq(s, CHOOSE i \in kept : \A j \in kept : i <= j, Len(s))

StripSet(s, cs) == LStripSet(RStripSet(s, cs), cs)

\* str.center(width): the padding is split with the odd blank on the left
\* exactly when the padding and the width are both odd
Center(s, width) ==
    LET pad == width - Len(s)
        left == (pad \div 2) + (IF pad % 2 = 1 /\ width % 2 = 1 THEN 1 ELSE 0)
    IN  IF pad <= 0 THEN s
        ELSE Repeat(<<SP>>, left) \o s \o Repeat(<<SP>>, pad - left)

Digit(d) == <<"0", "1", "2", "3", "4", "5", "6", "7", "8", "9">>[d + 1]

\* str(n) of an integer
RECURSIVE NatStr(_)
NatStr(n) == IF n < 10 THEN <<Digit(n)>> ELSE NatStr(n \div 10) \o <<Digit(n % 10)>>

IntStr(n) == IF n < 0 THEN <<"-">> \o NatStr(-n) ELSE NatStr(n)

----------------------------------------------------------------------------
(* The characters the printer gives a meaning to.                          *)

HBAR == "U2500"      \* the dash json.dumps indents with
VBAR == "U2502"      \* the vertical bar of a tree
TEE == "U251C"       \* the continuing-branch glyph of a tree
CORNER == "U2514"    \* the corner glyph of a tree
BOX_TL == "U2554"
BOX_H == "U2550"
BOX_TR == "U2557"
BOX_V == "U2551"
BOX_BL == "U255A"
BOX_BR == "U255D"

NonAscii == {HBAR, VBAR, TEE, CORNER, BOX_TL, BOX_H, BOX_TR, BOX_V, BOX_BL, BOX_BR}

\* Printer.ansi.codes: the marker's second character and the escape sequence
\* that replaces the marker, in the order of the dictionary
ansi_codes ==
    << <<"b", <<ESC, "[", "0", ";", "9", "4", "m">> >>,
       <<"c", <<ESC, "[", "0", ";", "9", "6", "m">> >>,
       <<"e", <<ESC, "[", "0", "m">> >>,
       <<"g", <<ESC, "[", "0", ";", "9", "2", "m">> >>,
       <<"m", <<ESC, "[", "1", ";", "3", "5", "m">> >>,
       <<"o", <<ESC, "[", "3", "8", ";", "5", ";", "2", "1", "4", "m">> >>,
       <<"r", <<ESC, "[", "0", ";", "9", "1", "m">> >>,
       <<"u", <<ESC, "[", "4", "m">> >>,
       <<"y", <<ESC, "[", "0", ";", "9", "3", "m">> >> >>

RECURSIVE colorify_from(_, _)
colorify_from(output, k) ==
    IF k > Len(ansi_codes) THEN output
    ELSE colorify_from(Replace(output, <<"!", ansi_codes[k][1]>>, ansi_codes[k][2]), k + 1)

colorify(text) == colorify_from(text, 1)

CURSOR_UP == <<ESC, "[", "F">>
CLEAR_LINE == <<ESC, "[", "K">>

\* len(repr(s)) of a text without quotes and backslashes: the two quotes, and
\* the escape character written as \x1b
ReprLen(s) == 2 + Len(s) + 3 * Count(s, ESC)

\* str.encode('ascii', 'replace').decode()
AsciiReplace(s) == [i \in 1..Len(s) |-> IF s[i] \in NonAscii THEN "?" ELSE s[i]]

----------------------------------------------------------------------------
(* textwrap.fill(text, width), for a text of one line and a width of at    *)
(* least 1.  No text of the model has a hyphen between letters, so the     *)
(* chunks are the runs of blanks and the runs of other characters.         *)

RECURSIVE RunLen(_, _)
RunLen(s, blank) ==
    IF s # <<>> /\ ((Head(s) = SP) = blank) THEN 1 + RunLen(Tail(s), blank) ELSE 0

RECURSIVE Chunks(_)
Chunks(s) ==
    IF s = <<>> THEN <<>>
    ELSE LET n == RunLen(s, Head(s) = SP)
         IN  <<SubSeq(s, 1, n)>> \o Chunks(SubSeq(s, n + 1, Len(s)))

IsBlank(chunk) == \A i \in 1..Len(chunk) : chunk[i] = SP

\* how many of the leading chunks fit in what is left of the width
RECURSIVE TakeFit(_, _)
TakeFit(chunks, room) ==
    IF chunks # <<>> /\ Len(Head(chunks)) <= room
    THEN 1 + TakeFit(Tail(chunks), room - Len(Head(chunks)))
    ELSE 0

\* where _handle_long_word cuts a chunk that is longer than the width: after
\* space_left characters, or after the last hyphen among them when something
\* other than hyphens comes before it
BreakAt(chunk, space_left) ==
    LET hyphens == {p \in 2..space_left : chunk[p] = "-" /\ \E q \in 1..(p - 1) : chunk[q] # "-"}
    IN  IF Len(chunk) > space_left /\ hyphens # {}
        THEN CHOOSE p \in hyphens : \A q \in hyphens : q <= p
        ELSE space_left

RECURSIVE wrap_chunks(_, _, _)
wrap_chunks(chunks, width, lines) ==
    IF chunks = <<>> THEN lines
    ELSE LET c0 == IF IsBlank(Head(chunks)) /\ lines # <<>> THEN Tail(chunks) ELSE chunks
             k == TakeFit(c0, width)
             cur1 == SubSeq(c0, 1, k)
             rest1 == SubSeq(c0, k + 1, Len(c0))
             long == rest1 # <<>> /\ Len(Head(rest1)) > width
             space_left == width - Len(Flatten(cur1))
             end == BreakAt(Head(rest1), space_left)
             cur2 == IF long THEN Append(cur1, SubSeq(Head(rest1), 1, end)) ELSE cur1
             rest2 == IF long
                      THEN <<SubSeq(Head(rest1), end + 1, Len(Head(rest1)))>> \o Tail(rest1)
                      ELSE rest1
             cur3 == IF cur2 # <<>> /\ IsBlank(cur2[Len(cur2)])
                     THEN SubSeq(cur2, 1, Len(cur2) - 1) ELSE cur2
         IN  wrap_chunks(rest2, width, IF cur3 # <<>> THEN Append(lines, Flatten(cur3)) ELSE lines)

fill(text, width) == Join(<<LF>>, wrap_chunks(Chunks(text), width, <<>>))

----------------------------------------------------------------------------
(* The printer's configuration and the message catalog.                    *)

NoFitter == [present |-> FALSE]

\* the fields of the fitter that the printer reads; the estimates are in
\* half seconds
Fitter(test, event_name, emcee_est_t, bh_est_t, fracking) ==
    [present |-> TRUE, test |-> test, event_name |-> event_name,
     emcee_est_t |-> emcee_est_t, bh_est_t |-> bh_est_t, fracking |-> fracking]

\* Printer._strings, the catalog that set_strings loads from strings.json: a
\* few keys with short texts, '{}' being a slot for a positional argument
_strings ==
    [k \in {"warning", "error", "progress", "moves_accepted", "estimated_time",
            "run_until_converged", "burning", "walking", "greeting", "pair"} |->
        CASE k = "warning" -> <<"W", "a", "r", "n", "i", "n", "g">>
          [] k = "error" -> <<"E", "r", "r", "o", "r">>
          [] k = "progress" -> <<"P", "r", "o", "g">>
          [] k = "moves_accepted" -> <<"A", "c", "c">>
          [] k = "estimated_time" -> <<"E", "T", "A">>
          [] k = "run_until_converged" -> <<"T", "o", " ", "c", "o", "n", "v">>
          [] k = "burning" -> <<"B", "u", "r", "n">>
          [] k = "walking" -> <<"W", "a", "l", "k">>
          [] k = "greeting" -> <<"H", "e", "l", "l", "o", " ", "y", "o", "u">>
          [] k = "pair" -> <<"{", "}", " ", "o", "f", " ", "{", "}">>]

\* self._pool and not self._pool.is_master()
NotMaster == pool = "worker"

\* what a write to sys.stdout is: write() of a text, print() of a line, or
\* the prompt that input() shows
Written(text) == [text |-> text, op |-> "write"]
Printed(text) == [text |-> text, op |-> "print"]
Prompted(text) == [text |-> text, op |-> "input"]

----------------------------------------------------------------------------
(* Printer._lines, Printer.prt and Printer.string.  The keyword arguments  *)
(* are a record with every key present; an absent wrap_length is 0, an     *)
(* absent width the empty tuple, an absent color the empty text.           *)

DefaultKw ==
    [wrap_length |-> 0, width |-> <<>>, colorify |-> FALSE, center |-> FALSE,
     warning |-> FALSE, error |-> FALSE, prefix |-> TRUE, color |-> <<>>,
     inline |-> FALSE, wrapped |-> FALSE, master_only |-> TRUE]

\* the lines of a text that is wrapped: fill() of each line, cut again
RECURSIVE FillLines(_, _)
FillLines(tspl, width) ==
    IF tspl = <<>> THEN <<>>
    ELSE Splitlines(fill(Head(tspl), width)) \o FillLines(Tail(tspl), width)

\* the test without the look at the pool
Suppressed_quiet_only(master_only) == quiet

\* the test that suppresses every line of a printer that is not the master's
Suppressed(master_only) == quiet \/ (master_only /\ NotMaster)

_lines(text, kw) ==
    IF Suppressed(kw.master_only) THEN <<>>
    ELSE LET t1 == IF kw.warning /\ kw.prefix
                   THEN <<"!", "y">> \o _strings["warning"] \o <<":", " ">> \o text \o <<"!", "e">>
                   ELSE text
             t2 == IF kw.error /\ kw.prefix
                   THEN <<"!", "r">> \o _strings["error"] \o <<":", " ">> \o t1 \o <<"!", "e">>
                   ELSE t1
             t3 == IF kw.color # <<>> THEN kw.color \o t2 \o <<"!", "e">> ELSE t2
             tspl == Splitlines(t3 \o <<LF>>)
             wl == IF kw.wrap_length = 0 THEN wrap_length ELSE kw.wrap_length
         IN  IF kw.wrapped THEN FillLines(tspl, wl) ELSE tspl

\* whether prt erases: the inline that is asked for, unless the fitter is in
\* test mode
EraseInline(inline) == IF inline /\ fitter.present THEN ~fitter.test ELSE inline

\* one cursor-up and clear-line pair, however many lines there are
ErasePairs_one(tspl) == <<Written(CURSOR_UP), Written(CLEAR_LINE)>>

\* one cursor-up and clear-line pair more than there are lines
ErasePairs_one_more(tspl) ==
    Flatten([i \in 1..(Len(tspl) + 1) |-> <<Written(CURSOR_UP), Written(CLEAR_LINE)>>])

\* the cursor-up and clear-line writes of prt, one pair for each line of tspl
ErasePairs(tspl) == Flatten([i \in 1..Len(tspl) |-> <<Written(CURSOR_UP), Written(CLEAR_LINE)>>])

\* rline.center(width + tlen), tlen being the length the markers add
CenterLine(line, rline, width) ==
    Center(rline, width + (ReprLen(rline) - Len(line) - Count(line, "!")))

\* one line as prt prints it
PrintLine(line, kw, colorify_) ==
    LET r1 == IF colorify_ THEN colorify(line) ELSE line
        r2 == IF kw.center THEN CenterLine(line, r1, kw.width[1]) ELSE r1
    IN  Printed(IF ~encodable /\ \E i \in 1..Len(r2) : r2[i] \in NonAscii
              THEN AsciiReplace(r2) ELSE r2)

\* prt: what it writes, and the error it raises ("" when it returns); a
\* centred line without a width raises when the first line is reached
prt(text, kw) ==
    LET tspl == _lines(text, kw)
        colorify_ == kw.colorify \/ kw.warning \/ kw.error \/ kw.color # <<>>
        erase == IF EraseInline(kw.inline) THEN ErasePairs(tspl) ELSE <<>>
    IN  IF kw.center /\ kw.width = <<>> /\ tspl # <<>>
        THEN [out |-> erase, error |-> "TypeError"]
        ELSE [out |-> erase \o [i \in 1..Len(tspl) |-> PrintLine(tspl[i], kw, colorify_)],
              error |-> ""]

\* Printer.string: the lines joined, nothing written
string(text, kw) ==
    LET tspl == _lines(text, kw)
    IN  Join(<<LF>>, [i \in 1..Len(tspl) |->
            IF kw.center THEN CenterLine(tspl[i], tspl[i], kw.width[1]) ELSE tspl[i]])

Returned == [kind |-> "return", type |-> "None"]
ReturnedBool(b) == [kind |-> "return", type |-> "bool", value |-> b]
ReturnedStr(s) == [kind |-> "return", type |-> "str", value |-> s]
Raised(e) == [error |-> e, kind |-> "raise"]

\* Printer.prt as an entry point
Prt(text, kw) ==
    LET p == prt(text, kw)
    IN  /\ stdout' = p.out
        /\ call' = [text |-> text, op |-> "prt", kw |-> kw]
        /\ ret' = IF p.error = "" THEN Returned ELSE Raised(p.error)
        /\ frame' = [tspl |-> _lines(text, kw)]
        /\ UNCHANGED config

----------------------------------------------------------------------------
(* Printer.status.  scores, acor and psrf stay at their defaults: their   *)
(* segments are formatted by pretty_num and calculate_WAIC of              *)
(* mosfit/utils.py.  An argument that is a list is a record with its       *)
(* items; one that is not a list is NotAList.                              *)

NotAList == [is_list |-> FALSE]
List(items) == [is_list |-> TRUE, items |-> items]
NoKmat == [present |-> FALSE]

\* '{:.0%}'.format(x) of a fraction x given in thousandths, x * 100 not
\* lying half way between two integers
Percent(x) == NatStr((x + 5) \div 10) \o <<"%">>

\* one acceptance fraction with its colour: '!r' under 1 %, '!y' under 10 %
AcceptStr(x) ==
    (IF x < 10 THEN <<"!", "r">> ELSE IF x < 100 THEN <<"!", "y">> ELSE <<"!", "g">>) \o Percent(x) \o <<"!", "e">>

\* int(round(t)) of a duration t given in half seconds: Python 3 rounds a
\* half to the even integer
RoundHalves(t) ==
    IF t % 2 = 0 THEN t \div 2
    ELSE LET q == (t - 1) \div 2 IN IF q % 2 = 0 THEN q ELSE q + 1

TwoDigits(n) == IF n < 10 THEN <<"0">> \o NatStr(n) ELSE NatStr(n)

\* str(datetime.timedelta(seconds=s)) for s >= 0
TimedeltaStr(s) ==
    LET days == s \div 86400
        secs == s % 86400
        hms == NatStr(secs \div 3600) \o <<":">> \o TwoDigits((secs % 3600) \div 60)
                   \o <<":">> \o TwoDigits(secs % 60)
    IN  IF days = 0 THEN hms
        ELSE NatStr(days) \o (IF days = 1 THEN <<" ", "d", "a", "y", ",", " ">> ELSE <<" ", "d", "a", "y", "s", ",", " ">>) \o hms

get_timestring(t) ==
    _strings["estimated_time"] \o <<":", " ", "[", " ">> \o TimedeltaStr(RoundHalves(t)) \o <<" ", "]">>

\* the total estimate with the doubling of a fitter that does not frack and
\* has no secondary time
TotalEstimate_doubled_without_fracking(f) ==
    IF ~f.fracking /\ f.bh_est_t = 0
    THEN 2 * f.emcee_est_t
    ELSE f.emcee_est_t + f.bh_est_t

\* the total estimate of lines 310-313
TotalEstimate(f) ==
    IF f.bh_est_t > 0 \/ ~f.fracking
    THEN f.emcee_est_t + f.bh_est_t
    ELSE 2 * f.emcee_est_t

\* the time segment with a duration for an estimate of zero
TimeSegments_from_zero(f) ==
    IF f.emcee_est_t < 0 THEN <<_strings["run_until_converged"]>>
    ELSE IF f.emcee_est_t + f.bh_est_t >= 0 THEN <<get_timestring(TotalEstimate(f))>>
    ELSE <<>>

\* the time segment of lines 307-315: none, the fixed message or a duration
TimeSegments(f) ==
    IF f.emcee_est_t < 0 THEN <<_strings["run_until_converged"]>>
    ELSE IF f.emcee_est_t + f.bh_est_t > 0 THEN <<get_timestring(TotalEstimate(f))>>
    ELSE <<>>

\* self._strings.get(desc, '?')
StringsGet(desc) == IF desc \in DOMAIN _strings THEN _strings[desc] ELSE <<"?">>

DescSegments(desc) ==
    IF desc = "" THEN <<>>
    ELSE IF desc = "burning" THEN <<<<"!", "o">> \o StringsGet(desc) \o <<"!", "e">>>>
    ELSE <<StringsGet(desc)>>

AcceptsSegments(accepts) ==
    IF ~accepts.is_list THEN <<>>
    ELSE <<_strings["moves_accepted"] \o <<":", " ", "[", " ">>
            \o Join(<<",", " ">>, [i \in 1..Len(accepts.items) |-> AcceptStr(accepts.items[i])])
            \o <<" ", "]">>>>

\* progress is [current, total], total 0 when there is none
ProgressSegments(progress) ==
    IF ~progress.is_list THEN <<>>
    ELSE IF progress.items[2] # 0
    THEN <<_strings["progress"] \o <<":", " ", "[", " ">> \o IntStr(progress.items[1]) \o <<"/">>
            \o IntStr(progress.items[2]) \o <<" ", "]">>>>
    ELSE <<_strings["progress"] \o <<":", " ", "[", " ">> \o IntStr(progress.items[1]) \o <<" ", "]">>>>

\* outarr before the messages are added (lines 264-348)
Outarr(a) ==
    <<fitter.event_name>> \o DescSegments(a.desc) \o AcceptsSegments(a.accepts)
        \o ProgressSegments(a.progress) \o TimeSegments(fitter)

----------------------------------------------------------------------------
(* The heatmap of Printer.status.  congrid, numpy's log and percentile are *)
(* not modelled: a matrix comes with the 14 x 7 grid they scale it to and  *)
(* with the three percentiles.  A value is <<v>>, or <<>> when it is NaN.  *)

GridCols == 14    \* len(kmat_scaled)
GridRows == 7     \* len(kmat_scaled[0])

Kmat(side, scaled, pers) ==
    [present |-> TRUE, side |-> side, scaled |-> scaled, pers |-> pers]

\* kmat is not None and kmat.shape[0] > 1
HasHeatmap(kmat) == kmat.present /\ kmat.side > 1

ascii_fill(value, pers) ==
    IF value = <<>> \/ value[1] < pers[1] THEN " "
    ELSE IF value[1] < pers[2] THEN "."
    ELSE IF value[1] < pers[3] THEN "*"
    ELSE "#"

\* the text of lines 363-367 and its lines
Doodle(kmat) ==
    LET row(j) == [i \in 1..GridCols |-> ascii_fill(kmat.scaled[i][j], kmat.pers)]
        bar == Repeat(<<BOX_H>>, GridCols)
        text == <<LF, BOX_TL>> \o bar \o <<BOX_TR, " ", " ", " ", LF>>
                  \o <<BOX_V>>
                  \o Join(<<BOX_V, " ", " ", " ", LF, BOX_V>>, [j \in 1..GridRows |-> row(j)])
                  \o <<BOX_V>>
                  \o <<LF, BOX_BL>> \o bar \o <<BOX_BR, " ", " ", " ">>
    IN  Splitlines(text)

\* the test of line 379 with the budget one too wide
Overflows_one_more(line, budget) == Len(line) > budget + 1

\* the test of line 379 that closes the line being packed
Overflows(line, budget) == Len(line) > budget

\* the loop of lines 372-384 from item i on: line is the line being packed,
\* lines the text of the closed ones, li the number of items in line
RECURSIVE PackFrom(_, _, _, _, _, _)
PackFrom(outarr, i, line, lines, li, budget) ==
    IF i > Len(outarr) THEN lines \o <<LF>> \o line
    ELSE LET item == outarr[i]
             joined == line \o (IF li > 0 THEN <<" ", "|", " ">> ELSE <<>>) \o item
         IN  IF Overflows(joined, budget)
             THEN PackFrom(outarr, i + 1, item, lines \o <<LF>> \o line, 1, budget)
             ELSE PackFrom(outarr, i + 1, joined, lines, li + 1, budget)

Pack(outarr, budget) == PackFrom(outarr, 1, <<>>, <<>>, 0, budget)

\* int(np.floor((len(kmat_scaled[0]) - len(lines)) / 2.0)) + 2
Loff(nlines) == ((GridRows - nlines) \div 2) + 2

\* the loop of lines 389-394: row li of the doodle, counted from 0, takes the
\* text line li - loff when there is one
Overlay(doodle, lines, loff) ==
    [r \in 1..Len(doodle) |->
        IF (r - 1) < loff \/ (r - 1) > loff + Len(lines) - 1
        THEN doodle[r]
        ELSE doodle[r] \o lines[(r - 1) - loff + 1]]

NoFrame == [lines |-> <<>>, outarr |-> <<>>, doodle |-> <<>>, kmat_extra |-> 0,
            text_lines |-> <<>>, rows |-> <<>>]

\* the locals of status once the text is built
StatusFrame(a) ==
    LET outarr == Outarr(a) \o a.messages.items
        heat == HasHeatmap(a.kmat)
        doodle == IF heat THEN Doodle(a.kmat) ELSE <<>>
        kmat_extra == IF heat THEN Len(doodle[Len(doodle)]) ELSE 0
        lines == Pack(outarr, wrap_length - kmat_extra)
        text_lines == IF heat THEN _lines(lines, DefaultKw) ELSE <<>>
        rows == IF heat THEN Overlay(doodle, text_lines, Loff(Len(text_lines))) ELSE <<>>
    IN  [lines |-> lines, outarr |-> outarr, doodle |-> doodle,
         kmat_extra |-> kmat_extra, text_lines |-> text_lines, rows |-> rows]

\* Printer.status as an entry point
Status(a) ==
    /\ call' = [op |-> "status", args |-> a]
    /\ UNCHANGED config
    /\ IF quiet
       THEN /\ stdout' = <<>> /\ ret' = Returned /\ frame' = NoFrame
       ELSE IF ~fitter.present
       THEN /\ stdout' = <<>> /\ ret' = Raised("AttributeError") /\ frame' = NoFrame
       ELSE IF ~a.messages.is_list
       THEN /\ stdout' = <<>> /\ ret' = Raised("ValueError") /\ frame' = NoFrame
       ELSE LET f == StatusFrame(a)
                text == IF HasHeatmap(a.kmat) THEN Join(<<LF>>, f.rows) ELSE f.lines
                p == prt(text, [DefaultKw EXCEPT !.colorify = TRUE,
                                                 !.inline = ~a.make_space])
            IN  /\ stdout' = p.out
                /\ ret' = Returned
                /\ frame' = f

----------------------------------------------------------------------------
(* Printer.message.                                                        *)

\* str.format that leaves the fields as they are
Format_unfilled(text, reps) == [text |-> text, error |-> ""]

\* str.format(*reps) of a text whose only fields are '{}': each takes the
\* next argument, and a field without an argument raises IndexError
RECURSIVE Format(_, _)
Format(text, reps) ==
    LET i == Find(text, <<"{", "}">>)
    IN  IF i = 0 THEN [text |-> text, error |-> ""]
        ELSE IF reps = <<>> THEN [text |-> <<>>, error |-> "IndexError"]
        ELSE LET rest == Format(SubSeq(text, i + 2, Len(text)), Tail(reps))
             IN  [text |-> SubSeq(text, 1, i - 1) \o Head(reps) \o rest.text,
                  error |-> rest.error]

\* the text of a name that the catalog does not hold (lines 192-193)
NotFoundText(reps) ==
    <<"<", " ", "M", "e", "s", "s", "a", "g", "e", " ", "n", "o", "t", " ", "f", "o", "u", "n", "d", " ", "[">>
        \o RStripSet(Flatten([x \in 1..Len(reps) |-> <<"{", "}", " ">>]), {SP})
        \o <<"]", " ", ">">>

\* the text of lines 189-194, formatted
MessageText(name, reps) ==
    Format(IF name \in DOMAIN _strings THEN _strings[name] ELSE NotFoundText(reps), reps)

MessageKw == [DefaultKw EXCEPT !.wrapped = TRUE]

\* Printer.message as an entry point
Message(name, reps, kw) ==
    LET t == MessageText(name, reps)
        p == prt(t.text, kw)
    IN  /\ call' = [op |-> "message", kw |-> kw, reps |-> reps, name |-> name]
        /\ UNCHANGED config
        /\ IF t.error # ""
           THEN /\ stdout' = <<>> /\ ret' = Raised(t.error) /\ frame' = [text |-> <<>>]
           ELSE /\ stdout' = p.out
                /\ ret' = IF p.error = "" THEN Returned ELSE Raised(p.error)
                /\ frame' = [text |-> t.text]

----------------------------------------------------------------------------
(* Printer.prompt.  The language is 'en', so translate returns its text.   *)

\* int(s) of a text: blanks around an optional sign and digits
IntBody(s) == LET t == StripSet(s, {SP}) IN IF t # <<>> /\ Head(t) \in {"+", "-"} THEN Tail(t) ELSE t

Digits == {"0", "1", "2", "3", "4", "5", "6", "7", "8", "9"}

\* utils.is_integer of a text: whether int() takes it
is_integer(s) == IntBody(s) # <<>> /\ \A i \in 1..Len(IntBody(s)) : IntBody(s)[i] \in Digits

DigitValue(c) == CHOOSE d \in 0..9 : Digit(d) = c

RECURSIVE NatOf(_)
NatOf(ds) == IF ds = <<>> THEN 0 ELSE 10 * NatOf(SubSeq(ds, 1, Len(ds) - 1)) + DigitValue(ds[Len(ds)])

IntOf(s) == IF Head(StripSet(s, {SP})) = "-" THEN 0 - NatOf(IntBody(s)) ELSE NatOf(IntBody(s))

\* the choices of a 'select' prompt (lines 211-219)
SelectChoices(options, none_string) ==
    LET n == Len(options)
        selpad == Repeat(<<SP>>, Len(NatStr(n)))
        entry(i) == <<" ">> \o NatStr(i) \o <<".", " ">>
                      \o SubSeq(selpad, Len(NatStr(i)), Len(selpad)) \o options[i]
        last == <<"[", "n", "]", ".">> \o selpad \o none_string \o <<LF>>
                  \o <<"E", "n", "t", "e", "r", " ", "s", "e", "l", "e", "c", "t", "i", "o", "n", " ", "(">> \o (IF n > 1 THEN <<"1", "-">> ELSE <<>>)
                  \o NatStr(n) \o <<"/", "[", "n", "]", ")", ":">>
    IN  <<LF>> \o Join(<<LF>>, [i \in 1..n |-> entry(i)] \o <<last>>)

Kinds == {"bool", "select", "string"}

Choices(a) ==
    IF a.kind = "bool" THEN <<" ", "(", "y", "/", "[", "n", "]", ")">>
    ELSE IF a.kind = "select" THEN SelectChoices(a.options, a.none_string)
    ELSE <<>>

\* the answers that a 'bool' prompt takes for a yes (line 239)
Yes == {<<"Y">>, <<"y">>, <<"Y", "e", "s">>, <<"y", "e", "s">>}

\* the value of lines 238-246
PromptValue(a, user_input) ==
    IF a.kind = "bool" THEN ReturnedBool(user_input \in Yes)
    ELSE IF a.kind = "select"
    THEN IF is_integer(user_input) /\ IntOf(user_input) \in 1..Len(a.options)
         THEN ReturnedStr(a.options[IntOf(user_input)])
         ELSE ReturnedBool(FALSE)
    ELSE ReturnedStr(user_input)

\* what prompt writes before it reads: the lines but the last through prt,
\* the last as the prompt of input()
PromptWrites(a) ==
    LET wl == IF a.wrap_length # 0 THEN a.wrap_length ELSE wrap_length
        text == IF a.message
                THEN string(a.text, [DefaultKw EXCEPT !.wrap_length = a.wrap_length])
                ELSE a.text
        prompt_txt == Split(text \o Choices(a), LF)
        n == Len(prompt_txt)
    IN  Flatten([i \in 1..(n - 1) |-> prt(fill(prompt_txt[i], wl), DefaultKw).out])
            \o <<Prompted(fill(prompt_txt[n], wl) \o <<" ">>)>>

\* Printer.prompt as an entry point, user_input being what input() returns
Prompt(a, user_input) ==
    /\ call' = [op |-> "prompt", args |-> a, user_input |-> user_input]
    /\ UNCHANGED config
    /\ frame' = [asked |-> a.kind \in Kinds]
    /\ IF a.kind \notin Kinds
       THEN /\ stdout' = <<>> /\ ret' = Raised("ValueError")
       ELSE /\ stdout' = PromptWrites(a)
            /\ ret' = PromptValue(a, user_input)

----------------------------------------------------------------------------
(* Printer.tree.  A dictionary is the sequence of its <<key, value>>       *)
(* pairs, in the order json.dumps walks them; a value is a dictionary.     *)

INDENT == <<HBAR, SP>>

QUOTE == "\""

\* json.dumps(d, indent=INDENT, separators=('', '')) of the dictionary d
\* that lies level dictionaries deep
RECURSIVE Dumps(_, _)
Dumps(d, level) ==
    IF d = <<>> THEN <<"{", "}">>
    ELSE LET newline_indent == <<LF>> \o Repeat(INDENT, level + 1)
             item(i) == <<QUOTE>> \o d[i][1] \o <<QUOTE>> \o Dumps(d[i][2], level + 1)
         IN  <<"{">> \o newline_indent
                 \o Join(newline_indent, [i \in 1..Len(d) |-> item(i)])
                 \o <<LF>> \o Repeat(INDENT, level) \o <<"}">>

\* ''.join(c for c in s if c not in cs)
Without(s, cs) == LET keep(c) == c \notin cs IN SelectSeq(s, keep)

\* the lines that hold more than indentation, without trailing blanks
\* (lines 437-439)
LabelLines(xs) ==
    LET labelled(x) == StripSet(x, {HBAR, SP}) # <<>>
        kept == SelectSeq(xs, labelled)
    IN  [i \in 1..Len(kept) |-> RStripSet(kept[i], {SP})]

\* one line of lines 441-442: the last indent of a nested key becomes the
\* branch glyph and the others bars, and a root loses its indent and gains ':'
BranchLine(x) ==
    IF StartsWith(x, <<HBAR, SP, HBAR>>)
    THEN Replace(Reverse(ReplaceFirst(Reverse(x), <<HBAR, SP, HBAR>>, <<TEE>>)),
                 <<HBAR>>, <<VBAR>>)
    ELSE Replace(x, <<HBAR, SP>>, <<>>) \o <<":">>

\* the loop of lines 446-449: a line with more bars than the next one is the
\* last of its dictionary
FirstPass(lines) ==
    [li \in 1..Len(lines) |->
        IF li < Len(lines) /\ Count(lines[li + 1], VBAR) < Count(lines[li], VBAR)
        THEN Replace(lines[li], <<TEE>>, <<CORNER>>)
        ELSE lines[li]]

\* one line of lines 455-459, below being the line under it as rewritten
AboveLine(line, below) ==
    [ci \in 1..Len(line) |->
        IF ci > Len(below) \/ line[ci] \notin {VBAR, TEE} \/ below[ci] # SP
        THEN line[ci]
        ELSE IF line[ci] = VBAR THEN SP ELSE CORNER]

\* the loop of lines 450-459 from the last line up to line k
RECURSIVE SecondPassFrom(_, _)
SecondPassFrom(lines, k) ==
    IF k = Len(lines)
    THEN <<Replace(Replace(lines[k], <<VBAR>>, <<SP>>), <<TEE>>, <<CORNER>>)>>
    ELSE LET rest == SecondPassFrom(lines, k + 1)
         IN  <<AboveLine(lines[k], rest[1])>> \o rest

\* the lines of one root (lines 432-460)
TreeLines(root) ==
    LET tree_str == Without(Dumps(<<root>>, 0), {"{", "}", "\""})
        kept == LabelLines(Split(tree_str, LF))
        branched == [i \in 1..Len(kept) |-> BranchLine(kept[i])]
        lines == [i \in 1..Len(branched) |-> <<" ", " ">> \o branched[i]]
    IN  SecondPassFrom(FirstPass(lines), 1)

\* Printer.tree as an entry point: every root is printed by a prt of its own
Tree(my_tree) ==
    LET printed == [r \in 1..Len(my_tree) |-> prt(Join(<<LF>>, TreeLines(my_tree[r])), DefaultKw)]
    IN  /\ call' = [op |-> "tree", my_tree |-> my_tree]
        /\ UNCHANGED config
        /\ stdout' = Flatten([r \in 1..Len(my_tree) |-> printed[r].out])
        /\ ret' = Returned
        /\ frame' = [lines |-> [r \in 1..Len(my_tree) |-> TreeLines(my_tree[r])]]

----------------------------------------------------------------------------
(* The printer after construction, and its entry points.                   *)

Start ==
    /\ stdout = <<>>
    /\ call = [op |-> "init"]
    /\ ret = Returned
    /\ frame = NoFrame

\* the width of the terminal the printer is built for
MainWrap == 20

\* the arguments the entry points are called with
Texts == {<<"a">>, <<"o", "n", "e", " ", "t", "w", "o", LF, "t", "h", "r", "e", "e">>, <<"!", "r", "r", "e", "d", "!", "e", " ", "f", "o", "u", "r", " ", "f", "i", "v", "e", " ", "s", "i", "x", " ", "s", "e", "v", "e", "n">>}

\* the keyword arguments of prt: inline, wrapped and master_only in every
\* combination, and one call for each of the others
PrtKws ==
    {[DefaultKw EXCEPT !.inline = i, !.wrapped = w, !.master_only = m] :
        i \in BOOLEAN, w \in BOOLEAN, m \in BOOLEAN}
    \cup {[DefaultKw EXCEPT !.colorify = TRUE],
          [DefaultKw EXCEPT !.warning = TRUE, !.inline = TRUE],
          [DefaultKw EXCEPT !.error = TRUE, !.color = <<"!", "c">>],
          [DefaultKw EXCEPT !.center = TRUE, !.width = <<MainWrap>>, !.inline = TRUE],
          [DefaultKw EXCEPT !.center = TRUE]}

Names == {"greeting", "pair", "nope"}

Reps == {<<>>, <<<<"a">>>>, <<<<"a">>, <<"b", "c">>>>}

\* a 14 x 7 grid of scaled values with one NaN, and its percentiles
Ramp ==
    Kmat(2, [i \in 1..GridCols |-> [j \in 1..GridRows |->
                IF i = 1 /\ j = 1 THEN <<>> ELSE <<(i + j) % 4>>]], <<1, 2, 3>>)

StatusArgs(desc, accepts, progress, messages, kmat, make_space) ==
    [fracking |-> FALSE, desc |-> desc, accepts |-> accepts,
     progress |-> progress, kmat |-> kmat, messages |-> messages,
     make_space |-> make_space]

MainMessages == {NotAList, List(<<>>), List(<<<<"!", "g", "f", "i", "n", "e", "!", "e">>, <<"s", "e", "c", "o", "n", "d", " ", "m", "e", "s", "s", "a", "g", "e">>>>)}

Leaf(k) == <<k, <<>>>>

MainForests ==
    {<<>>,
     << <<<<"A">>, <<Leaf(<<"B">>), Leaf(<<"C">>)>>>> >>,
     << <<<<"A">>, << <<<<"B">>, <<Leaf(<<"D">>)>>>>, Leaf(<<"C">>)>>>>, Leaf(<<"E">>) >>}

PromptArgs(kind, message) ==
    [wrap_length |-> 0, text |-> <<"P", "i", "c", "k", " ", "o", "n", "e", " ", "o", "f", " ", "t", "h", "e", "s", "e">>, kind |-> kind,
     options |-> <<<<"r", "e", "d">>, <<"b", "l", "u", "e">>>>, none_string |-> <<"N", "o", "n", "e">>, message |-> message]

MainKinds == Kinds \cup {"list"}

MainInputs == {<<"y">>, <<"2">>}

\* the fitters of a printer: none, one that is being tested and one that is not
MainFitters ==
    {NoFitter, Fitter(TRUE, <<"S", "N", "1">>, 7322, 0, FALSE), Fitter(FALSE, <<"S", "N", "1">>, 7322, 0, FALSE)}

Init ==
    /\ quiet \in BOOLEAN
    /\ pool \in {"none", "master", "worker"}
    /\ wrap_length = MainWrap
    /\ fitter \in MainFitters
    /\ encodable \in BOOLEAN
    /\ Start

Next ==
    \/ \E text \in Texts, kw \in PrtKws : Prt(text, kw)
    \/ \E name \in Names, reps \in Reps, inline \in BOOLEAN :
           Message(name, reps, [MessageKw EXCEPT !.inline = inline])
    \/ \E messages \in MainMessages, kmat \in {NoKmat, Ramp}, make_space \in BOOLEAN :
           Status(StatusArgs("burning", NotAList, List(<<3, 10>>), messages, kmat, make_space))
    \/ \E my_tree \in MainForests : Tree(my_tree)
    \/ \E kind \in MainKinds, message \in BOOLEAN, user_input \in MainInputs :
           Prompt(PromptArgs(kind, message), user_input)

Spec == Init /\ [][Next]_vars

----------------------------------------------------------------------------
(* The packing of the status line and the heatmap beside it: status on a   *)
(* printer that writes, for every width of the terminal up to MaxWrap and  *)
(* for message lists of up to MaxMessages messages.                        *)

MaxWrap == 26

MaxMessages == 8

MessagePool ==
    <<<<"o", "k">>,
      <<"x">>,
      <<"!", "r", "b", "a", "d", " ", "f", "i", "t", "!", "e">>,
      <<"s", "t", "e", "p", " ", "3">>,
      <<"!", "y", "w", "a", "r", "m", "!", "e">>,
      <<"c", "o", "n", "v", "e", "r", "g", "e", "d">>,
      <<"a", " ", "b">>,
      <<"!", "g", "d", "o", "n", "e", "!", "e">>,
      <<"l", "a", "s", "t", " ", "o", "n", "e">>,
      <<"m", "o", "r", "e">>>>

\* the first n messages of the pool, and the first n of the pool turned round
MessageLists ==
    {SubSeq(pool_, 1, n) : pool_ \in {MessagePool, Reverse(MessagePool)},
                           n \in {m \in 0..MaxMessages : m <= Len(MessagePool)}}

\* a matrix of one parameter, which has no heatmap
Single == Kmat(1, <<>>, <<>>)

PackInit ==
    /\ quiet = FALSE
    /\ pool = "none"
    /\ wrap_length \in 1..MaxWrap
    /\ fitter = Fitter(FALSE, <<"S", "N">>, 0, 0, FALSE)
    /\ encodable = TRUE
    /\ Start

PackNext ==
    \E messages \in MessageLists, kmat \in {NoKmat, Single, Ramp} :
        Status(StatusArgs("burning", List(<<4, 250>>), NotAList, List(messages), kmat, FALSE))

PackSpec == PackInit /\ [][PackNext]_vars

----------------------------------------------------------------------------
(* What the packing loop promises.                                         *)

\* the second characters of the markers that colorify replaces
MarkerLetters == {ansi_codes[k][1] : k \in 1..Len(ansi_codes)}

\* the width of a line on the terminal: its length without its markers
VisibleWidth(line) ==
    Len(line) - 2 * Cardinality({i \in 1..(Len(line) - 1) :
                                    line[i] = "!" /\ line[i + 1] \in MarkerLetters})

\* the segments that a packed line holds
LineSegments(line) ==
    IF line = <<>> THEN <<>> ELSE Split(Replace(line, <<" ", "|", " ">>, <<"|">>), "|")

\* the lines of the text that the packing loop of the last status built
PackedLines == Split(frame.lines, LF)

Packed == call.op = "status" /\ frame.lines # <<>>

\* the width the loop packs to: the terminal's, less the heatmap's when one
\* is drawn (the grid, its two borders and the three blanks beside it)
PackBudget ==
    wrap_length - (IF call.args.kmat.present /\ call.args.kmat.side >= 2
                   THEN GridCols + 5 ELSE 0)

\* no segment is split or lost: the lines hold the segments, in their order
SegmentsKept ==
    Flatten([i \in 1..Len(PackedLines) |-> LineSegments(PackedLines[i])]) = frame.outarr

WithinBudget(line) ==
    \/ VisibleWidth(line) <= PackBudget
    \/ Len(LineSegments(line)) = 1 /\ VisibleWidth(line) > PackBudget

\* C1, as claimed: no line of the packed text is wider than the budget unless
\* it is one segment that is itself wider, and no segment is split
C1_NoLineOverBudget ==
    Packed => /\ \A i \in 1..Len(PackedLines) : WithinBudget(PackedLines[i])
              /\ SegmentsKept

\* C1, amended: every line that holds a segment is within the budget unless it
\* is one segment that is itself wider, and no segment is split; a line that
\* holds no segment (the text starts with one, and the loop closes one when
\* the first segment overflows) is wider than a budget below zero
C1_NoSegmentLineOverBudget ==
    Packed => /\ \A i \in 1..Len(PackedLines) :
                    PackedLines[i] # <<>> => WithinBudget(PackedLines[i])
              /\ SegmentsKept

\* a heatmap is drawn, one line holds two segments, another is one segment
\* that is wider than the budget, and a third is within the budget only
\* because its markers are not counted
C1_Witness ==
    /\ Packed
    /\ HasHeatmap(call.args.kmat)
    /\ PackBudget > 0
    /\ \E i \in 1..Len(PackedLines) : Len(LineSegments(PackedLines[i])) = 2
    /\ \E i \in 1..Len(PackedLines) :
           Len(LineSegments(PackedLines[i])) = 1 /\ VisibleWidth(PackedLines[i]) > PackBudget
    /\ \E i \in 1..Len(PackedLines) :
           PackedLines[i] # <<>> /\ VisibleWidth(PackedLines[i]) <= PackBudget
               /\ Len(PackedLines[i]) > PackBudget

----------------------------------------------------------------------------
(* The trees of Printer.tree: every forest of up to MaxNodes nodes, the    *)
(* nodes labelled A, B, C, ... in the order json.dumps walks them.         *)

MaxNodes == 5

\* the shapes of the forests of n nodes: a forest is the sequence of its
\* trees, a tree the forest of its children
RECURSIVE ShapesOf(_)
ShapesOf(n) ==
    IF n = 0 THEN {<<>>}
    ELSE UNION {{<<t>> \o rest : t \in ShapesOf(k - 1), rest \in ShapesOf(n - k)} : k \in 1..n}

RECURSIVE NodeCount(_)
NodeCount(shape) ==
    IF shape = <<>> THEN 0 ELSE 1 + NodeCount(Head(shape)) + NodeCount(Tail(shape))

LabelOf(k) == <<<<"A", "B", "C", "D", "E", "F", "G", "H">>[k]>>

\* the forest of a shape, its nodes labelled from the k-th label on
RECURSIVE Labelled(_, _)
Labelled(shape, k) ==
    IF shape = <<>> THEN <<>>
    ELSE << <<LabelOf(k), Labelled(Head(shape), k + 1)>> >>
             \o Labelled(Tail(shape), k + 1 + NodeCount(Head(shape)))

Forests == {Labelled(shape, 1) : shape \in UNION {ShapesOf(n) : n \in 0..MaxNodes}}

TreeInit ==
    /\ quiet = FALSE
    /\ pool = "none"
    /\ wrap_length = MainWrap
    /\ fitter = NoFitter
    /\ encodable \in BOOLEAN
    /\ Start

TreeNext == \E my_tree \in Forests : Tree(my_tree)

TreeSpec == TreeInit /\ [][TreeNext]_vars

\* the lines of the children of a node as a directory tree draws them: the
\* last child with the corner and the others with the continuing branch,
\* under a bar in the column of every ancestor that has a later sibling
RECURSIVE ChildLines(_, _)
ChildLines(children, prefix) ==
    Flatten([i \in 1..Len(children) |->
        <<prefix \o <<IF i = Len(children) THEN CORNER ELSE TEE, SP>> \o children[i][1]>>
            \o ChildLines(children[i][2],
                          prefix \o <<IF i = Len(children) THEN SP ELSE VBAR, SP>>)])

\* the lines of one root: the root without indent, and its descendants
DirectoryTree(root) == <<<<" ", " ">> \o root[1] \o <<":">>>> \o ChildLines(root[2], <<" ", " ">>)

\* the texts of the lines that the last call printed
PrintedTexts ==
    LET printed(e) == e.op = "print"
        events == SelectSeq(stdout, printed)
    IN  [i \in 1..Len(events) |-> events[i].text]

\* the forest {"A": {"B": {}, "C": {}}}
ExampleForest == << <<<<"A">>, <<Leaf(<<"B">>), Leaf(<<"C">>)>>>> >>

\* C2, as claimed: on a terminal that takes the glyphs, tree prints every
\* root as a directory tree, with the corner on each last child, the
\* continuing branch on each other child, and a bar only under an ancestor
\* that has a later sibling
C2_CornersAtEveryDepth ==
    (call.op = "tree" /\ encodable) =>
        PrintedTexts = Flatten([r \in 1..Len(call.my_tree) |-> DirectoryTree(call.my_tree[r])])

\* the example of C2 is printed as claimed: one corner, on C, and one
\* continuing branch, on B
C2_ExampleAsClaimed ==
    (call.op = "tree" /\ encodable /\ call.my_tree = ExampleForest) =>
        PrintedTexts = <<<<" ", " ", "A", ":">>, <<" ", " ", TEE, " ", "B">>, <<" ", " ", CORNER, " ", "C">>>>

C2_ExampleReached == call.op = "tree" /\ encodable /\ call.my_tree = ExampleForest

----------------------------------------------------------------------------
(* What the entry points promise on every printer (Spec).                  *)

\* the last call was to an entry point that prints, with master_only left
\* at its default
OutputCall ==
    \/ call.op \in {"message", "status", "tree"}
    \/ call.op = "prt" /\ call.kw.master_only

\* C3: a printer that is quiet, or has a pool of which it is not the master,
\* writes nothing in prt, message, status and tree: no line and no erase
\* sequence, whether inline is asked for or not
C3_SilentWhenSuppressed ==
    (OutputCall /\ (quiet \/ pool = "worker")) => stdout = <<>>

\* a printer that is not quiet, in a pool of which it is not the master, was
\* asked for an inline status with a heatmap, and has returned from it
C3_Witness ==
    /\ ~quiet /\ pool = "worker"
    /\ call.op = "status" /\ ret = Returned
    /\ HasHeatmap(call.args.kmat) /\ ~call.args.make_space
    /\ call.args.messages.is_list /\ call.args.messages.items # <<>>
    /\ fitter.present /\ ~fitter.test
    /\ stdout = <<>>

\* whether the last call asked prt for inline output
InlineAsked ==
    CASE call.op \in {"prt", "message"} -> call.kw.inline
      [] call.op = "status" -> ~call.args.make_space
      [] OTHER -> FALSE

\* C4: when inline is asked for and the fitter is not being tested, what a
\* call writes is one cursor-up and clear-line pair for each line it prints,
\* all of them before the first line; otherwise it writes no erase sequence
C4_ErasePairsMatchLines ==
    (call.op \in {"prt", "message", "status", "tree"} /\ ret.kind = "return") =>
        LET n == Len(PrintedTexts)
        IN  IF InlineAsked /\ ~(fitter.present /\ fitter.test)
            THEN /\ Len(stdout) = 3 * n
                 /\ \A i \in 1..n : /\ stdout[2 * i - 1] = Written(CURSOR_UP)
                                    /\ stdout[2 * i] = Written(CLEAR_LINE)
                                    /\ stdout[2 * n + i].op = "print"
            ELSE Len(stdout) = n

\* an inline prt of two lines on a printer whose fitter is not being tested,
\* which wrote two pairs and then the lines
C4_Witness ==
    /\ call.op = "prt" /\ call.kw.inline /\ ret.kind = "return"
    /\ fitter.present /\ ~fitter.test
    /\ Len(PrintedTexts) = 2
    /\ Len(stdout) = 6
    /\ stdout[4] = Written(CLEAR_LINE)
    /\ stdout[5].op = "print"

\* C9, as claimed: on every printer, status with messages that are not a
\* list, and prompt with a kind it does not know, raise and write nothing
C9_ConfigurationErrorsRaised ==
    /\ (call.op = "status" /\ ~call.args.messages.is_list) =>
           (ret.kind = "raise" /\ stdout = <<>>)
    /\ (call.op = "prompt" /\ call.args.kind \notin Kinds) =>
           (ret.kind = "raise" /\ stdout = <<>>)

\* what holds of C9: prompt raises on every printer, status on those that are
\* not quiet
C9_RaisedUnlessQuiet ==
    /\ (call.op = "status" /\ ~call.args.messages.is_list /\ ~quiet) =>
           (ret.kind = "raise" /\ stdout = <<>>)
    /\ (call.op = "prompt" /\ call.args.kind \notin Kinds) =>
           (ret = Raised("ValueError") /\ stdout = <<>>)

\* a quiet printer has returned from a status whose messages are not a list
C9_QuietReturns ==
    quiet /\ call.op = "status" /\ ~call.args.messages.is_list /\ ret = Returned

----------------------------------------------------------------------------
(* The time estimate of Printer.status: fitters with every pair of         *)
(* estimates of up to MaxTime half seconds, and some of hours and days.    *)

MaxTime == 4

\* 7322 half seconds are 3661 seconds, 172800 a day
EmceeTimes == (-2..MaxTime) \cup {7322, 172800, 345601}

BhTimes == (0..MaxTime) \cup {7200}

TimeInit ==
    /\ quiet = FALSE
    /\ pool = "none"
    /\ wrap_length = MainWrap
    /\ fitter \in {Fitter(FALSE, <<"S", "N">>, e, b, fr) :
                      e \in EmceeTimes, b \in BhTimes, fr \in BOOLEAN}
    /\ encodable = TRUE
    /\ Start

TimeNext ==
    \E desc \in {"", "walking"}, fracking \in BOOLEAN :
        Status([StatusArgs(desc, NotAList, NotAList, List(<<>>), NoKmat, FALSE)
                    EXCEPT !.fracking = fracking])

TimeSpec == TimeInit /\ [][TimeNext]_vars

\* the last call was a status that built its segments
Composed == call.op = "status" /\ frame.outarr # <<>>

DurationHead == _strings["estimated_time"] \o <<":", " ", "[", " ">>

IsDuration(seg) == StartsWith(seg, DurationHead)

\* the segments of the last status that show a duration, and those that are
\* the fixed message
Durations == SelectSeq(frame.outarr, IsDuration)

Converging ==
    LET fixed(seg) == seg = _strings["run_until_converged"]
    IN  SelectSeq(frame.outarr, fixed)

\* the duration a segment shows, between its brackets
Shown(seg) == SubSeq(seg, Len(DurationHead) + 1, Len(seg) - 2)

IsNumber(s) == s # <<>> /\ \A i \in 1..Len(s) : s[i] \in Digits

\* whether a text is H:MM:SS, and the seconds it stands for
IsClock(d) ==
    LET parts == Split(d, ":")
    IN  /\ Len(parts) = 3
        /\ \A i \in 1..3 : IsNumber(parts[i])
        /\ Len(parts[2]) = 2 /\ NatOf(parts[2]) < 60
        /\ Len(parts[3]) = 2 /\ NatOf(parts[3]) < 60

ClockSeconds(d) ==
    LET parts == Split(d, ":")
    IN  3600 * NatOf(parts[1]) + 60 * NatOf(parts[2]) + NatOf(parts[3])

\* a duration of a day or more: the days, ' day, ' or ' days, ', and a clock
DayWords(d) == Split(d, " ")

IsDaysAndClock(d) ==
    /\ Len(DayWords(d)) = 3
    /\ IsNumber(DayWords(d)[1]) /\ NatOf(DayWords(d)[1]) >= 1
    /\ DayWords(d)[2] = (IF NatOf(DayWords(d)[1]) = 1 THEN <<"d", "a", "y", ",">> ELSE <<"d", "a", "y", "s", ",">>)
    /\ IsClock(DayWords(d)[3]) /\ ClockSeconds(DayWords(d)[3]) < 86400

\* the seconds that a shown duration stands for
ShownSeconds(d) ==
    IF IsClock(d) THEN ClockSeconds(d)
    ELSE 86400 * NatOf(DayWords(d)[1]) + ClockSeconds(DayWords(d)[3])

\* C5, as claimed: a negative estimate adds the fixed message and no
\* duration; an estimate of zero or more adds one duration, shown as H:MM:SS
C5_DurationFromZero ==
    Composed =>
        IF fitter.emcee_est_t < 0
        THEN Len(Converging) = 1 /\ Durations = <<>>
        ELSE /\ Converging = <<>>
             /\ Len(Durations) = 1
             /\ IsClock(Shown(Durations[1]))

\* C5, amended: a negative estimate adds the fixed message and no duration;
\* estimates whose sum is above zero add one duration, shown as H:MM:SS when
\* it is under a day and as the days and H:MM:SS otherwise (half a second
\* as 0:00:00, 3661 seconds as 1:01:01); a sum of zero adds no time segment
C5_DurationAboveZero ==
    Composed =>
        IF fitter.emcee_est_t < 0
        THEN Len(Converging) = 1 /\ Durations = <<>>
        ELSE IF fitter.emcee_est_t + fitter.bh_est_t > 0
        THEN /\ Converging = <<>>
             /\ Len(Durations) = 1
             /\ LET d == Shown(Durations[1])
                IN  /\ Durations[1] = DurationHead \o d \o <<" ", "]">>
                    /\ IF IsClock(d) THEN ClockSeconds(d) < 86400 ELSE IsDaysAndClock(d)
                    /\ (fitter.emcee_est_t = 7322 /\ fitter.bh_est_t = 0 /\ ~fitter.fracking)
                           => d = <<"1", ":", "0", "1", ":", "0", "1">>
                    /\ (fitter.emcee_est_t = 1 /\ fitter.bh_est_t = 0 /\ ~fitter.fracking)
                           => d = <<"0", ":", "0", "0", ":", "0", "0">>
        ELSE Converging = <<>> /\ Durations = <<>>

\* a status of a fitter whose estimates are both zero, which shows no time
C5_Witness ==
    /\ Composed
    /\ fitter.emcee_est_t = 0 /\ fitter.bh_est_t = 0
    /\ Durations = <<>> /\ Converging = <<>>

\* the seconds of an estimate in half seconds, a half going to the even side
HalvesToSeconds(t) == IF t % 2 = 0 THEN t \div 2 ELSE 2 * ((t + 1) \div 4)

\* C6, as claimed: the duration shown is that of the sum of the two
\* estimates, and of twice the first exactly when the fitter does not frack
\* and the second is zero
C6_DoubledWithoutFracking ==
    (Composed /\ Durations # <<>>) =>
        ShownSeconds(Shown(Durations[1])) =
            HalvesToSeconds(IF ~fitter.fracking /\ fitter.bh_est_t = 0
                            THEN 2 * fitter.emcee_est_t
                            ELSE fitter.emcee_est_t + fitter.bh_est_t)

\* C6, amended: the duration shown is that of the sum of the two estimates,
\* and of twice the first exactly when the fitter fracks and the second is
\* not above zero
C6_DoubledWhenFrackingNotTimed ==
    (Composed /\ Durations # <<>>) =>
        ShownSeconds(Shown(Durations[1])) =
            HalvesToSeconds(IF fitter.fracking /\ fitter.bh_est_t <= 0
                            THEN 2 * fitter.emcee_est_t
                            ELSE fitter.emcee_est_t + fitter.bh_est_t)

\* a status of a fitter that fracks and has no secondary time yet, which
\* shows twice the first estimate: 4 seconds for 2
C6_Witness ==
    /\ Composed
    /\ fitter.fracking /\ fitter.bh_est_t = 0 /\ fitter.emcee_est_t = 4
    /\ Durations = <<DurationHead \o <<"0", ":", "0", "0", ":", "0", "4", " ", "]">>>>

----------------------------------------------------------------------------
(* Printer.message: names the catalog holds and names it does not, with up *)
(* to MaxReps arguments, on a terminal of MainWrap columns and on one so    *)
(* narrow that the text is wrapped.                                        *)

MaxReps == 3

NarrowWrap == 8

RepValues == {<<"a">>, <<"b", " ", "c">>}

RECURSIVE RepsUpTo(_)
RepsUpTo(n) ==
    IF n = 0 THEN {<<>>}
    ELSE RepsUpTo(n - 1)
             \cup {Append(reps, v) : reps \in {r \in RepsUpTo(n - 1) : Len(r) = n - 1},
                                     v \in RepValues}

MessageNames == {"greeting", "pair", "nope", "no_such_key"}

MessageInit ==
    /\ quiet \in BOOLEAN
    /\ pool \in {"none", "worker"}
    /\ wrap_length \in {NarrowWrap, MainWrap}
    /\ fitter = NoFitter
    /\ encodable = TRUE
    /\ Start

MessageNext ==
    \E name \in MessageNames, reps \in RepsUpTo(MaxReps), inline \in BOOLEAN :
        Message(name, reps, [MessageKw EXCEPT !.inline = inline])

MessageSpec == MessageInit /\ [][MessageNext]_vars

\* the last call was a message whose name the catalog does not hold
MissingName == call.op = "message" /\ call.name \notin DOMAIN _strings

\* the text the last call printed, its lines joined again
PrintedText == Join(<<SP>>, PrintedTexts)

\* how many blank slots a text holds
BlankSlots(text) ==
    Cardinality({i \in 1..(Len(text) - 1) : text[i] = "{" /\ text[i + 1] = "}"})

PlaceholderHead == <<"<", " ", "M", "e", "s", "s", "a", "g", "e", " ", "n", "o", "t", " ", "f", "o", "u", "n", "d", " ", "[">>

\* C7, as claimed: a message whose name the catalog does not hold never
\* raises, and the text it prints is the placeholder with one blank slot for
\* each argument
C7_PlaceholderKeepsBlankSlots ==
    MissingName =>
        /\ ret.kind = "return"
        /\ stdout # <<>> =>
               /\ StartsWith(PrintedText, PlaceholderHead)
               /\ BlankSlots(PrintedText) = Len(call.reps)

\* C7, amended: a message whose name the catalog does not hold never raises,
\* and the text it prints is the placeholder with the arguments' values in
\* its slots, a blank between them; a printer that is quiet or not the
\* master's prints nothing
C7_PlaceholderHoldsArguments ==
    MissingName =>
        /\ ret.kind = "return"
        /\ IF quiet \/ pool = "worker"
           THEN stdout = <<>>
           ELSE /\ PrintedText = PlaceholderHead \o Join(<<SP>>, call.reps) \o <<"]", " ", ">">>
                /\ BlankSlots(PrintedText) = 0

\* a message of two arguments whose name the catalog does not hold, printed
\* on the narrow terminal in more than one line
C7_Witness ==
    /\ MissingName /\ Len(call.reps) = 2
    /\ ret.kind = "return"
    /\ wrap_length = NarrowWrap
    /\ Len(PrintedTexts) > 1
    /\ PrintedText = PlaceholderHead \o <<"a", " ", "b", " ", "c", "]", " ", ">">>

----------------------------------------------------------------------------
(* Printer.prompt: the three kinds, with up to MaxOptions options to       *)
(* select from and the answers a user may type.                            *)

MaxOptions == 3

OptionPool == <<<<"r", "e", "d">>, <<"b", "l", "u", "e">>, <<"g", "r", "e", "e", "n">>, <<"t", "e", "a", "l">>, <<"g", "r", "e", "y">>>>

Answers ==
    {<<"y">>, <<"Y">>, <<"y", "e", "s">>, <<"Y", "e", "s">>, <<"Y", "E", "S">>, <<"y", "E", "s">>, <<"n">>, <<"n", "o">>, <<"y", "e", "s", "s">>, <<>>,
     <<"0">>, <<"1">>, <<"2">>, <<"3">>, <<"4">>, <<"5">>, <<" ", "2">>, <<"+", "1">>, <<"-", "1">>, <<"1", ".", "5">>, <<"t", "w", "o">>}

\* the prompts: 'bool' and 'string' with the options left out, 'select' with
\* the first n options of the pool
Prompts ==
    {[PromptArgs(kind, TRUE) EXCEPT !.options = <<>>] : kind \in {"bool", "string"}}
    \cup {[PromptArgs("select", TRUE) EXCEPT !.options = SubSeq(OptionPool, 1, n)] :
             n \in {k \in 1..MaxOptions : k <= Len(OptionPool)}}

PromptInit ==
    /\ quiet \in BOOLEAN
    /\ pool = "none"
    /\ wrap_length \in {NarrowWrap, MainWrap}
    /\ fitter = NoFitter
    /\ encodable = TRUE
    /\ Start

PromptNext == \E a \in Prompts, user_input \in Answers : Prompt(a, user_input)

PromptSpec == PromptInit /\ [][PromptNext]_vars

\* str.lower() of an answer
LowerCase(c) ==
    CASE c = "Y" -> "y" [] c = "E" -> "e" [] c = "S" -> "s"
      [] c = "N" -> "n" [] c = "O" -> "o" [] OTHER -> c

Lower(s) == [i \in 1..Len(s) |-> LowerCase(s[i])]

\* the last call was a prompt that asked and returned
Answered == call.op = "prompt" /\ ret.kind = "return"

\* what a 'select' prompt returns: the option of the number typed, or False
Selected ==
    IF is_integer(call.user_input) /\ IntOf(call.user_input) >= 1
           /\ IntOf(call.user_input) <= Len(call.args.options)
    THEN ReturnedStr(call.args.options[IntOf(call.user_input)])
    ELSE ReturnedBool(FALSE)

\* C8, as claimed: 'bool' returns whether the answer is y or yes in any
\* case, 'select' the option of the number typed or False, and 'string' the
\* answer as typed
C8_YesInAnyCase ==
    Answered =>
        CASE call.args.kind = "bool" ->
                 ret = ReturnedBool(Lower(call.user_input) \in {<<"y">>, <<"y", "e", "s">>})
          [] call.args.kind = "select" -> ret = Selected
          [] OTHER -> ret = ReturnedStr(call.user_input)

\* what holds of C8: 'bool' returns whether the answer is one of Y, y, Yes and
\* yes, and the other kinds return as claimed
C8_YesAsListed ==
    Answered =>
        CASE call.args.kind = "bool" ->
                 ret = ReturnedBool(call.user_input \in {<<"Y">>, <<"y">>, <<"Y", "e", "s">>, <<"y", "e", "s">>})
          [] call.args.kind = "select" -> ret = Selected
          [] OTHER -> ret = ReturnedStr(call.user_input)

\* a 'bool' prompt that was answered YES has returned False
C8_UpperCaseRefused ==
    /\ Answered /\ call.args.kind = "bool"
    /\ call.user_input = <<"Y", "E", "S">>
    /\ ret = ReturnedBool(FALSE)

----------------------------------------------------------------------------
(* What the overlay of the status text on the heatmap promises.            *)

\* the last status drew a heatmap
Overlaid == call.op = "status" /\ frame.doodle # <<>>

\* the rows of the final text are the rows of the widget, the packed lines
\* appended in order to as many rows that follow each other
LinesOnRows(offset) ==
    /\ offset + Len(PackedLines) <= Len(frame.doodle)
    /\ \A r \in 1..Len(frame.doodle) :
           frame.rows[r] =
               frame.doodle[r] \o (IF offset < r /\ r <= offset + Len(PackedLines)
                                   THEN PackedLines[r - offset] ELSE <<>>)

\* C10, as claimed: when a heatmap is drawn, every row of the widget is in
\* the final text once, every packed line is appended once and in order to a
\* row, and the other rows are as the widget has them
C10_EveryLineOnARow ==
    Overlaid =>
        /\ Len(frame.rows) = Len(frame.doodle)
        /\ \E offset \in 0..Len(frame.doodle) : LinesOnRows(offset)

\* what holds of C10: the claim, for packed texts of no more lines than the
\* widget has rows
C10_EveryLineOnARowIfRoom ==
    (Overlaid /\ Len(PackedLines) <= Len(frame.doodle)) =>
        /\ Len(frame.rows) = Len(frame.doodle)
        /\ \E offset \in 0..Len(frame.doodle) : LinesOnRows(offset)

\* a status with a heatmap whose packed text has one line more than the
\* widget has rows: the last message is on no row
C10_LastLineDropped ==
    /\ Overlaid
    /\ Len(PackedLines) = Len(frame.doodle) + 1
    /\ \A r \in 1..Len(frame.rows) :
           frame.rows[r] # frame.doodle[r] \o PackedLines[Len(PackedLines)]
    /\ \A r \in 1..Len(frame.rows) : frame.rows[r] = frame.doodle[r] \o PackedLines[r]

----------------------------------------------------------------------------
(* Inline renders one after another: the stream keeps everything that was  *)
(* written to sys.stdout since the printer was built, for up to MaxRenders *)
(* renders of a printer that is not quiet, has no pool and has a fitter    *)
(* that is not being tested.                                               *)

MaxRenders == 2

\* whether the i-th write to the stream is the first of an inline render:
\* an erase sequence that follows a printed line, or nothing at all
RenderStart(s, i) == s[i].op = "write" /\ (i = 1 \/ s[i - 1].op = "print")

RenderStarts(s) == {i \in 1..Len(s) : RenderStart(s, i)}

RenderCount(s) == Cardinality(RenderStarts(s))

\* Printer.prt on the kept stream
PrtOnStream(text, kw) ==
    LET p == prt(text, kw)
    IN  /\ RenderCount(stdout) < MaxRenders
        /\ stdout' = stdout \o p.out
        /\ call' = [text |-> text, op |-> "prt", kw |-> kw]
        /\ ret' = IF p.error = "" THEN Returned ELSE Raised(p.error)
        /\ frame' = [tspl |-> _lines(text, kw)]
        /\ UNCHANGED config

\* Printer.status on the kept stream
StatusOnStream(a) ==
    /\ RenderCount(stdout) < MaxRenders
    /\ call' = [op |-> "status", args |-> a]
    /\ UNCHANGED config
    /\ IF quiet
       THEN /\ stdout' = stdout /\ ret' = Returned /\ frame' = NoFrame
       ELSE IF ~fitter.present
       THEN /\ stdout' = stdout /\ ret' = Raised("AttributeError") /\ frame' = NoFrame
       ELSE IF ~a.messages.is_list
       THEN /\ stdout' = stdout /\ ret' = Raised("ValueError") /\ frame' = NoFrame
       ELSE LET f == StatusFrame(a)
                text == IF HasHeatmap(a.kmat) THEN Join(<<LF>>, f.rows) ELSE f.lines
                p == prt(text, [DefaultKw EXCEPT !.colorify = TRUE,
                                                 !.inline = ~a.make_space])
            IN  /\ stdout' = stdout \o p.out
                /\ ret' = Returned
                /\ frame' = f

\* texts of one to four lines
StreamTexts ==
    {<<"a">>, <<"b", LF, "c">>, <<"d", LF, "e", LF, "f">>, <<"g">>, <<"h", LF, "i">>,
     <<"j", LF, "k", LF, "l", LF, "m">>}

\* no message, and two that do not fit on one line of MainWrap columns
StreamMessages == {<<>>, <<<<"f", "i", "r", "s", "t", " ", "m", "e", "s", "s", "a", "g", "e">>, <<"s", "e", "c", "o", "n", "d", " ", "m", "e", "s", "s", "a", "g", "e">>>>}

StreamInit ==
    /\ quiet = FALSE
    /\ pool = "none"
    /\ wrap_length = MainWrap
    /\ fitter = Fitter(FALSE, <<"S", "N">>, 0, 0, FALSE)
    /\ encodable = TRUE
    /\ Start

StreamNext ==
    \/ \E text \in StreamTexts : PrtOnStream(text, [DefaultKw EXCEPT !.inline = TRUE])
    \/ \E desc \in {"", "burning"}, messages \in StreamMessages :
           StatusOnStream(StatusArgs(desc, NotAList, NotAList, List(messages), NoKmat, FALSE))

StreamSpec == StreamInit /\ [][StreamNext]_vars

----------------------------------------------------------------------------
(* What the terminal shows.  A terminal is <<rows, cur, k, hit>>: its rows  *)
(* from the top, each <<text, by>> with by the number of the render that    *)
(* printed it, 0 for what was there before and -k when render k cleared it; *)
(* the row the cursor is on, counted from 0; the renders begun; the rows    *)
(* that the erase sequence of the last render cleared.  The terminal is     *)
(* taken to be wider than every line and taller than everything written.    *)

MaxAbove == 2

\* a terminal with n lines on it and the cursor below them
Terminal(n) == <<<<>> \o [i \in 1..n |-> <<<<"p", Digit(i)>>, 0>>], n, 0, {}>>

\* ESC[F: to the start of the line above, if there is one
CursorUp(t) == <<t[1], IF t[2] > 0 THEN t[2] - 1 ELSE 0, t[3], t[4]>>

\* ESC[K at the start of a line: the line is cleared
ClearLine(t) ==
    IF t[2] < Len(t[1])
    THEN <<[t[1] EXCEPT ![t[2] + 1] = <<<<>>, 0 - t[3]>>], t[2], t[3], t[4] \cup {t[2] + 1}>>
    ELSE t

\* print(): the text over what the row holds, and the cursor to the next row
PrintRow(t, text) ==
    IF t[2] < Len(t[1])
    THEN LET old == t[1][t[2] + 1][1]
         IN  <<[t[1] EXCEPT ![t[2] + 1] = <<text \o SubSeq(old, Len(text) + 1, Len(old)), t[3]>>],
               t[2] + 1, t[3], t[4]>>
    ELSE <<Append(t[1], <<text, t[3]>>), t[2] + 1, t[3], t[4]>>

\* the terminal after the i-th write of a stream
Receive(t, s, i) ==
    LET t1 == IF RenderStart(s, i) THEN <<t[1], t[2], t[3] + 1, {}>> ELSE t
    IN  CASE s[i] = Written(CURSOR_UP) -> CursorUp(t1)
          [] s[i] = Written(CLEAR_LINE) -> ClearLine(t1)
          [] s[i].op = "print" -> PrintRow(t1, s[i].text)
          [] OTHER -> t1

RECURSIVE Show(_, _, _)
Show(t, s, i) == IF i > Len(s) THEN t ELSE Show(Receive(t, s, i), s, i + 1)

\* where the last render begins in the stream
LastStart == CHOOSE i \in RenderStarts(stdout) : \A j \in RenderStarts(stdout) : j <= i

\* the terminal before and after the last render, with n lines on it at first
Before(n) == Show(Terminal(n), SubSeq(stdout, 1, LastStart - 1), 1)
After(n) == Show(Terminal(n), stdout, 1)

\* two inline renders or more have been written
TwoRenders == RenderCount(stdout) >= 2

\* the rows that a terminal shows as printed by render k
RowsBy(t, k) == {r \in 1..Len(t[1]) : t[1][r][2] = k}

\* the lines of the last render
LaterLines ==
    LET isprint(e) == e.op = "print"
        events == SelectSeq(SubSeq(stdout, LastStart, Len(stdout)), isprint)
    IN  [i \in 1..Len(events) |-> <<events[i].text, RenderCount(stdout)>>]

\* the rows of the render before the last, and its lines that are still shown
EarlierRows(n) == RowsBy(Before(n), RenderCount(stdout) - 1)
StaleRows(n) == RowsBy(After(n), RenderCount(stdout) - 1)

\* the later render is shown in place of the earlier one
InPlace(n) ==
    /\ Len(After(n)[1]) = Len(Before(n)[1])
    /\ \A r \in 1..Len(After(n)[1]) :
          IF r \in EarlierRows(n)
          THEN After(n)[1][r] = LaterLines[r - Len(After(n)[1]) + Len(LaterLines)]
          ELSE After(n)[1][r] = Before(n)[1][r]

\* the number of lines of the render before the last, and of the last
EarlierCount ==
    LET first == CHOOSE i \in RenderStarts(stdout) :
                     \A j \in RenderStarts(stdout) : j < LastStart => (j <= i /\ i < LastStart)
    IN  Cardinality({i \in first..(LastStart - 1) : stdout[i].op = "print"})

LaterCount == Len(LaterLines)

\* C11, as claimed: of two inline renders one after the other with different
\* numbers of lines, a line of the earlier one is still shown after the later
\* one, whose erase sequence cleared only lines of the earlier one; with the
\* same number of lines the later one is shown in place of the earlier one
C11_StaleWheneverCountsDiffer ==
    TwoRenders =>
        \A n \in 0..MaxAbove :
            IF EarlierCount # LaterCount
            THEN StaleRows(n) # {} /\ After(n)[4] \subseteq EarlierRows(n)
            ELSE InPlace(n)

\* C11, amended: the later of two inline renders one after the other clears
\* and then prints over as many rows as it has lines, counted up from the
\* end of the earlier one.  With fewer lines the first lines of the earlier
\* render are still shown and only its rows are cleared; with as many lines
\* it is shown in place of the earlier one; with more lines no line of the
\* earlier render is still shown, and the rows above it, as many as the
\* later render has lines more and the terminal has rows there, are cleared
\* and printed over as well
C11_LaterRenderTakesLastRows ==
    TwoRenders =>
        \A n \in 0..MaxAbove :
            LET rows == Before(n)[1]
                top == Len(rows) - EarlierCount
                more == LaterCount - EarlierCount
                from == IF top - more > 0 THEN top - more ELSE 0
            IN  /\ EarlierRows(n) = (top + 1)..Len(rows)
                /\ After(n)[4] = (from + 1)..Len(rows)
                /\ After(n)[1] = SubSeq(rows, 1, from) \o LaterLines
                /\ After(n)[2] = Len(After(n)[1])
                /\ IF more < 0
                   THEN /\ StaleRows(n) = (top + 1)..(top - more)
                        /\ After(n)[4] \subseteq EarlierRows(n)
                   ELSE IF more = 0
                   THEN InPlace(n) /\ After(n)[4] = EarlierRows(n)
                   ELSE /\ StaleRows(n) = {}
                        /\ Cardinality(After(n)[4] \ EarlierRows(n)) = (IF more < top THEN more ELSE top)

\* a render of one line and then one of two on a terminal with two lines on
\* it: the first of the two lines, which no render had printed, was cleared
\* and printed over, and no line of the earlier render is still shown
C11_Witness ==
    /\ RenderCount(stdout) = 2
    /\ EarlierCount = 1 /\ LaterCount = 2
    /\ Before(2)[1][1] = <<<<"p", "1">>, 0>>
    /\ 1 \in After(2)[4]
    /\ After(2)[1][1] = LaterLines[1]
    /\ StaleRows(2) = {}

====
